---- MODULE Spec2Model ----
(***************************************************************************)
(* ultra-mcp-ss (src/main.py): a FastAPI proxy that translates REST        *)
(* requests into calls against the SmartScreen display API and the YouTube *)
(* search API.                                                             *)
(*                                                                         *)
(* Every handler is a coroutine with one suspension point, the await of    *)
(* the outbound HTTP call.  A handler is therefore modelled by two steps:  *)
(* the endpoint action (validation done, payload built, outbound call      *)
(* issued) and the resumption when the vendor's reply, or the transport    *)
(* error, arrives.  Handlers of different requests interleave freely.      *)
(***************************************************************************)
EXTENDS Integers, Sequences, FiniteSets, TLC

\* ------------------------------------------------------------------ bounds

\* Display requests accepted in one behaviour (the counters accepted and sent
\* stop there; search requests are not counted).
MaxRequests == 3

\* Handlers that can be in flight at the same time.
Handlers == {"h1", "h2"}

\* ---------------------------------------------------------- configuration

None == "None"

YOUTUBE_API_URL == "https://www.googleapis.com/youtube/v3/search"

SMARTSCREEN_API_URL == "https://smartscreen.tv/api"

\* Values os.environ.get can give for the two credentials.
EnvValues == {None, "secret"}

VARIABLES
    YOUTUBE_API_KEY,            \* read once at import
    SMARTSCREEN_SERVICE_TOKEN,  \* read once at import
    smartscreen_client,         \* the one SmartScreenClient: [api_url, token]
    pc,                         \* handler -> "idle" | "awaiting" | "done"
    request,                    \* handler -> the validated inbound request
    outbound,                   \* handler -> the outbound calls it has issued
    reply,                      \* handler -> what came back on its outbound call
    outcome,                    \* handler -> what the translator / adapter gave back
    response,                   \* handler -> the REST response sent to the caller
    accepted,                   \* display requests accepted so far
    sent                        \* outbound calls to the display API so far

vars == <<YOUTUBE_API_KEY, SMARTSCREEN_SERVICE_TOKEN, smartscreen_client, pc,
          request, outbound, reply, outcome, response, accepted, sent>>

\* ------------------------------------------------------- inbound requests

Displays == {"lobby", "kiosk"}

\* DropRequest: display, item, x (default 0), y (default 0).
DropRequest ==
    [endpoint : {"/drop"}, display : Displays, item : {"https://e.x/a.mp4"},
     x : {0, 7}, y : {0, 4}]

\* NotifyRequest: display, message, priority.
NotifyRequest ==
    [endpoint : {"/notify"}, display : Displays, message : {"Hello", "Fire drill"},
     priority : {"normal", "high"}]

\* ToastRequest: display, message, heading, icon, transition, duration ("5").
ToastRequest ==
    [endpoint : {"/toast"}, display : Displays, message : {"Saved"},
     heading : {"Note"}, icon : {"info"}, transition : {"slide"},
     duration : {"9"}]

\* MarqueeRequest: display, message, duration ("30"), color, size ("3"), bgcolor.
MarqueeRequest ==
    [endpoint : {"/marquee"}, display : Displays, message : {"News"},
     duration : {"45"}, color : {"red"}, size : {"6"}, bgcolor : {"black"}]

\* TextRequest: display, message, duration ("30"), color, size ("3"), bgcolor,
\* align, frame, animate, aniduration ("2").
TextRequest ==
    [endpoint : {"/text"}, display : Displays, message : {"Welcome"},
     duration : {"20"}, color : {"green"}, size : {"5"}, bgcolor : {"grey"},
     align : {"center"}, frame : {"t1"}, animate : {"zoom"},
     aniduration : {"8"}]

\* AppRequest: display, url, duration ("0"), frame.
AppRequest ==
    [endpoint : {"/app"}, display : Displays, url : {"https://e.x/app"},
     duration : {"60"}, frame : {"t2"}]

\* TouchRequest: display, option, value.
TouchRequest ==
    [endpoint : {"/touch"}, display : Displays, option : {"playnext"},
     value : {""}]

\* StatusRequest: display, option, value.
StatusRequest ==
    [endpoint : {"/status"}, display : Displays, option : {"frame"},
     value : {"main"}]

\* DjRequest: display, option, value.
DjRequest ==
    [endpoint : {"/dj"}, display : Displays, option : {"kiosk"},
     value : {"on"}]

\* GET /search-youtube?query=...  A query is a sequence of characters.
SearchRequest ==
    [endpoint : {"/search-youtube"},
     query : {<<"c", "a", "t">>, <<"a", " ", "b">>, <<"t", "&", "b">>}]

DisplayEndpoints ==
    {"/drop", "/notify", "/toast", "/marquee", "/text", "/app", "/touch",
     "/status", "/dj"}

NoRequest == [endpoint |-> "-"]
NoReply == [kind |-> "-"]
NoOutcome == [kind |-> "-"]
NoResponse == [status |-> 0, body |-> << >>]

\* ------------------------------------------------------ the vendor's side

\* A decoded JSON object is a record; {} is the empty one.
EmptyDict == << >>

\* dict.get(key, default)
get(d, key, default) == IF key \in DOMAIN d THEN d[key] ELSE default

\* What can come back on the POST to the display API: no response at all
\* (httpx.RequestError: DNS failure, timeout, connection refused), or a
\* response with a status and a body that is or is not JSON.
VendorReplies ==
    {[kind |-> "error"]}
    \cup [kind : {"response"}, status : {200}, is_json : {TRUE},
          json : {EmptyDict, [ErrCode |-> 0], [ErrCode |-> 1, ErrMsg |-> "x"]}]
    \cup {[kind |-> "response", status |-> 200, is_json |-> FALSE, json |-> EmptyDict],
          [kind |-> "response", status |-> 201, is_json |-> TRUE, json |-> [ErrCode |-> 0]],
          [kind |-> "response", status |-> 500, is_json |-> FALSE, json |-> EmptyDict]}

\* What can come back on the GET to the search API.
SearchReplies ==
    {[kind |-> "error"],
     [kind |-> "response", status |-> 403, is_json |-> TRUE, json |-> EmptyDict],
     [kind |-> "response", status |-> 200, is_json |-> FALSE, json |-> EmptyDict]}
    \cup [kind : {"response"}, status : {200}, is_json : {TRUE},
          json : {EmptyDict,
                  [items |-> << >>],
                  [items |-> <<[id |-> [videoId |-> "abc123"]]>>],
                  [items |-> <<[id |-> [videoId |-> ""]]>>],
                  [items |-> <<[id |-> [kind |-> "youtube#channel"]]>>],
                  [items |-> <<[etag |-> "e"]>>]}]

\* ------------------------------------------------------ SmartScreenClient

\* f"Bearer {self.token}"
Bearer(token) == "Bearer " \o token

\* The envelope every translator wraps its command in.
envelope(display, command) == [to |-> [name |-> display], data |-> command]

\* client.post(self.api_url, headers=headers, json=payload)
post(client, headers, payload) ==
    [method |-> "POST", url |-> client.api_url, headers |-> headers,
     json |-> payload]

auth_headers(client) == ("Authorization" :> Bearer(client.token))

\* Faulty variant: the coordinates are forwarded.
drop_command_with_xy(item, x, y) ==
    [cmd |-> "drop", type |-> "url", src |-> <<item>>, duration |-> "0",
     frame |-> "main", animate |-> "fade", aniduration |-> "2",
     pmode |-> "loop", bgcolor |-> "white", x |-> x, y |-> y]

drop_command(item, x, y) ==
    [cmd |-> "drop", type |-> "url", src |-> <<item>>, duration |-> "0",
     frame |-> "main", animate |-> "fade", aniduration |-> "2",
     pmode |-> "loop", bgcolor |-> "white"]

drop(client, item, display, x, y) ==
    post(client,
         ("Content-Type" :> "application/json") @@ auth_headers(client),
         envelope(display, drop_command(item, x, y)))

\* Faulty variant: the priority picks the colour.
notify_command_by_priority(message, priority) ==
    [cmd |-> "notify", msg |-> message, duration |-> "30",
     color |-> IF priority = "high" THEN "red" ELSE "blue", size |-> "3"]

notify_command(message, priority) ==
    [cmd |-> "notify", msg |-> message, duration |-> "30", color |-> "blue",
     size |-> "3"]

notify(client, message, display, priority) ==
    post(client, auth_headers(client),
         envelope(display, notify_command(message, priority)))

\* Faulty variant: heading and icon change places.
toast_command_swapped(message, heading, icon, transition, duration) ==
    [cmd |-> "toast", msg |-> message, heading |-> icon, icon |-> heading,
     transition |-> transition, duration |-> duration]

toast_command(message, heading, icon, transition, duration) ==
    [cmd |-> "toast", msg |-> message, heading |-> heading, icon |-> icon,
     transition |-> transition, duration |-> duration]

toast(client, message, display, heading, icon, transition, duration) ==
    post(client, auth_headers(client),
         envelope(display, toast_command(message, heading, icon, transition, duration)))

marquee_command(message, duration, color, size, bgcolor) ==
    [cmd |-> "marquee", msg |-> message, duration |-> duration,
     color |-> color, size |-> size, bgcolor |-> bgcolor]

marquee(client, message, display, duration, color, size, bgcolor) ==
    post(client, auth_headers(client),
         envelope(display, marquee_command(message, duration, color, size, bgcolor)))

text_command(message, duration, color, size, bgcolor, align, frame, animate, aniduration) ==
    [cmd |-> "text", msg |-> message, duration |-> duration, color |-> color,
     size |-> size, bgcolor |-> bgcolor, align |-> align, frame |-> frame,
     animate |-> animate, aniduration |-> aniduration]

text(client, message, display, duration, color, size, bgcolor, align, frame, animate, aniduration) ==
    post(client, auth_headers(client),
         envelope(display, text_command(message, duration, color, size, bgcolor,
                                        align, frame, animate, aniduration)))

app_command(url, duration, frame) ==
    [cmd |-> "app", url |-> url, duration |-> duration, frame |-> frame]

app(client, url, display, duration, frame) ==
    post(client, auth_headers(client),
         envelope(display, app_command(url, duration, frame)))

touch_command_payload(option, value) ==
    [cmd |-> "touch", option |-> option, value |-> value]

touch(client, option, display, value) ==
    post(client, auth_headers(client),
         envelope(display, touch_command_payload(option, value)))

status_command_payload(option, value) ==
    [cmd |-> "status", option |-> option, value |-> value]

status(client, option, display, value) ==
    post(client, auth_headers(client),
         envelope(display, status_command_payload(option, value)))

dj_command_payload(option, value) ==
    [cmd |-> "dj", option |-> option, value |-> value]

dj(client, option, display, value) ==
    post(client, auth_headers(client),
         envelope(display, dj_command_payload(option, value)))

\* Faulty variant: a missing ErrCode is taken for "no error".
is_vendor_error_default_zero(result) == get(result, "ErrCode", 0) # 0

\* result.get("ErrCode", -1) != 0
is_vendor_error(result) == get(result, "ErrCode", -1) # 0

\* What a translator gives back once its await of client.post is over.  The
\* nine translators share this text word for word (only the printed name
\* differs).  No exception is caught: a transport error raised by
\* client.post and a decoding error raised by response.json() leave the
\* translator as exceptions.  parsed records whether response.json() ran.
translator_outcome(r) ==
    IF r.kind = "error"
    THEN [kind |-> "raised", exc |-> "httpx.RequestError", parsed |-> FALSE]
    ELSE IF r.status # 200
    THEN [kind |-> "returned", value |-> FALSE, parsed |-> FALSE]
    ELSE IF ~r.is_json
    THEN [kind |-> "raised", exc |-> "JSONDecodeError", parsed |-> TRUE]
    ELSE IF is_vendor_error(r.json)
    THEN [kind |-> "returned", value |-> FALSE, parsed |-> TRUE]
    ELSE [kind |-> "returned", value |-> TRUE, parsed |-> TRUE]

\* ------------------------------------------------------- video lookup

\* urllib.parse.quote_plus, character by character: a space becomes "+",
\* letters, digits and _ . - ~ stay, anything else is percent-encoded.
SafeChars == {"a", "b", "c", "t", "_", ".", "-", "~"}

PercentCode ==
    ("&" :> <<"%", "2", "6">>) @@ ("+" :> <<"%", "2", "B">>)
    @@ ("%" :> <<"%", "2", "5">>) @@ ("=" :> <<"%", "3", "D">>)

RECURSIVE quote_plus(_)
quote_plus(s) ==
    IF s = << >> THEN << >>
    ELSE (IF Head(s) = " " THEN <<"+">>
          ELSE IF Head(s) \in SafeChars THEN <<Head(s)>>
          ELSE PercentCode[Head(s)]) \o quote_plus(Tail(s))

\* The characters the HTTP client never encodes in a parameter value: the
\* unreserved ones (here the safe ones and the digits of the escapes).
Unreserved == SafeChars \cup {"0", "2", "3", "5", "6", "B", "D"}

ClientCode == PercentCode @@ (" " :> <<"%", "2", "0">>)

\* client.get(url, params=params): the client encodes each parameter value
\* itself when it builds the query string.  Every character that is not
\* unreserved is percent-encoded, "+" and "%" included.
RECURSIVE httpx_percent_encoded(_)
httpx_percent_encoded(s) ==
    IF s = << >> THEN << >>
    ELSE (IF Head(s) \in Unreserved THEN <<Head(s)>> ELSE ClientCode[Head(s)])
         \o httpx_percent_encoded(Tail(s))

\* Some releases of the client leave "+" and what is already a %XX escape
\* alone.  (After quote_plus every "%" starts an escape.)
RECURSIVE httpx_keeping_escapes(_)
httpx_keeping_escapes(s) ==
    IF s = << >> THEN << >>
    ELSE (IF Head(s) \in Unreserved \cup {"+", "%"} THEN <<Head(s)>>
          ELSE ClientCode[Head(s)])
         \o httpx_keeping_escapes(Tail(s))

\* The forms the q parameter can take on the wire; which one depends on the
\* release of the client that is installed, which the repository does not pin.
httpx_query_values(v) == {httpx_percent_encoded(v), httpx_keeping_escapes(v)}

\* The characters of a string, joined.
RECURSIVE str(_)
str(s) == IF s = << >> THEN "" ELSE Head(s) \o str(Tail(s))

\* Faulty variant: only None counts as false, the empty string passes.
truthy_only_none(v) == v # None

\* Python truthiness of a value that is None or a string.
truthy(v) == v # None /\ v # ""

\* client.get(YOUTUBE_API_URL, params=params)
search_call(query, key) ==
    [method |-> "GET", url |-> YOUTUBE_API_URL,
     params |-> [part |-> "snippet", q |-> quote_plus(query), key |-> key,
                 type |-> "video", maxResults |-> 1, order |-> "relevance"]]

\* What search_youtube_video returns once its await of client.get is over:
\* every exception is caught and turned into None.
search_youtube_video(r) ==
    IF r.kind = "error"
    THEN [kind |-> "returned", video_id |-> None, parsed |-> FALSE]
    ELSE IF r.status \notin 200..299
    THEN [kind |-> "returned", video_id |-> None, parsed |-> FALSE]
    ELSE IF ~r.is_json
    THEN [kind |-> "returned", video_id |-> None, parsed |-> TRUE]
    ELSE IF get(r.json, "items", << >>) # << >>
    THEN [kind |-> "returned",
          video_id |-> get(get(r.json.items[1], "id", EmptyDict), "videoId", None),
          parsed |-> TRUE]
    ELSE [kind |-> "returned", video_id |-> None, parsed |-> TRUE]

\* ------------------------------------------------------- request surface

\* raise HTTPException(status_code=..., detail=...)
HTTPException(status_code, detail) ==
    [status |-> status_code, body |-> [detail |-> detail]]

\* An exception that leaves the endpoint uncaught: the framework answers
\* with a plain-text 500.
InternalServerError == [status |-> 500, body |-> [text |-> "Internal Server Error"]]

OK(body) == [status |-> 200, body |-> body]

\* Faulty variant: the success flag is not looked at.
answer_ignoring_success(o, detail, body) ==
    IF o.kind = "raised" THEN InternalServerError ELSE OK(body)

\* if not success: raise ...; return {...}
answer(o, detail, body) ==
    IF o.kind = "raised" THEN InternalServerError
    ELSE IF ~o.value THEN HTTPException(500, detail)
    ELSE OK(body)

drop_item_response(req, o) ==
    answer(o, "Failed to drop item",
           [message |-> "Item dropped successfully", item |-> req.item,
            x |-> req.x, y |-> req.y])

notify_user_response(req, o) ==
    answer(o, "Failed to send notification",
           [message |-> "Notification sent successfully",
            notification |-> req.message])

toast_message_response(req, o) ==
    answer(o, "Failed to show toast message",
           [message |-> "Toast displayed successfully", toast |-> req.message])

marquee_text_response(req, o) ==
    answer(o, "Failed to show marquee text",
           [message |-> "Marquee displayed successfully", marquee |-> req.message])

display_text_response(req, o) ==
    answer(o, "Failed to show text",
           [message |-> "Text displayed successfully", text |-> req.message])

launch_app_response(req, o) ==
    answer(o, "Failed to launch app",
           [message |-> "App launched successfully", url |-> req.url])

touch_command_response(req, o) ==
    answer(o, "Failed to execute touch command",
           [message |-> "Touch command executed successfully",
            option |-> req.option, value |-> req.value])

status_command_response(req, o) ==
    answer(o, "Failed to execute status command",
           [message |-> "Status command executed successfully",
            option |-> req.option, value |-> req.value])

dj_command_response(req, o) ==
    answer(o, "Failed to execute DJ command",
           [message |-> "DJ command executed successfully",
            option |-> req.option, value |-> req.value])

\* Faulty variant: a lookup without a video id is answered as a server error.
get_youtube_video_link_response_500(req, o) ==
    IF truthy(o.video_id)
    THEN OK([video_url |-> "https://www.youtube.com/watch?v=" \o o.video_id])
    ELSE HTTPException(500, "No relevant YouTube video found for query: '"
                            \o str(req.query) \o "'")

\* if video_id: return {"video_url": ...} else: raise HTTPException(404, ...)
get_youtube_video_link_response(req, o) ==
    IF truthy(o.video_id)
    THEN OK([video_url |-> "https://www.youtube.com/watch?v=" \o o.video_id])
    ELSE HTTPException(404, "No relevant YouTube video found for query: '"
                            \o str(req.query) \o "'")

\* The response of the endpoint a display request was routed to.
endpoint_response(req, o) ==
    CASE req.endpoint = "/drop" -> drop_item_response(req, o)
      [] req.endpoint = "/notify" -> notify_user_response(req, o)
      [] req.endpoint = "/toast" -> toast_message_response(req, o)
      [] req.endpoint = "/marquee" -> marquee_text_response(req, o)
      [] req.endpoint = "/text" -> display_text_response(req, o)
      [] req.endpoint = "/app" -> launch_app_response(req, o)
      [] req.endpoint = "/touch" -> touch_command_response(req, o)
      [] req.endpoint = "/status" -> status_command_response(req, o)
      [] req.endpoint = "/dj" -> dj_command_response(req, o)

\* ---------------------------------------------------------------- actions

\* Module import: the environment is read, the client is constructed.
SmartScreenClient(token) == [api_url |-> SMARTSCREEN_API_URL, token |-> token]

Init ==
    /\ YOUTUBE_API_KEY \in EnvValues
    /\ SMARTSCREEN_SERVICE_TOKEN \in EnvValues
    /\ smartscreen_client = SmartScreenClient(SMARTSCREEN_SERVICE_TOKEN)
    /\ pc = [h \in Handlers |-> "idle"]
    /\ request = [h \in Handlers |-> NoRequest]
    /\ outbound = [h \in Handlers |-> << >>]
    /\ reply = [h \in Handlers |-> NoReply]
    /\ outcome = [h \in Handlers |-> NoOutcome]
    /\ response = [h \in Handlers |-> NoResponse]
    /\ accepted = 0
    /\ sent = 0

config == <<YOUTUBE_API_KEY, SMARTSCREEN_SERVICE_TOKEN, smartscreen_client>>

\* Faulty variant: the call is issued a second time.
await_call_retry(calls, call) == Append(Append(calls, call), call)

\* response = await client.post(...) / client.get(...): one call goes out and
\* the coroutine is suspended.
await_call(calls, call) == Append(calls, call)

\* Faulty variant: the POST is a blocking call, so no translator starts while
\* another handler is waiting for its reply.
call_translator_blocking(h, req, call) ==
    /\ pc[h] = "idle"
    /\ \A g \in Handlers : pc[g] # "awaiting"
    /\ accepted < MaxRequests
    /\ pc' = [pc EXCEPT ![h] = "awaiting"]
    /\ request' = [request EXCEPT ![h] = req]
    /\ outbound' = [outbound EXCEPT ![h] = await_call(@, call)]
    /\ accepted' = accepted + 1
    /\ sent' = sent + (Len(outbound'[h]) - Len(outbound[h]))
    /\ UNCHANGED <<config, reply, outcome, response>>

\* A display endpoint is entered with a validated request: its translator
\* builds the payload and issues the POST.
call_translator(h, req, call) ==
    /\ pc[h] = "idle"
    /\ accepted < MaxRequests
    /\ pc' = [pc EXCEPT ![h] = "awaiting"]
    /\ request' = [request EXCEPT ![h] = req]
    /\ outbound' = [outbound EXCEPT ![h] = await_call(@, call)]
    /\ accepted' = accepted + 1
    /\ sent' = sent + (Len(outbound'[h]) - Len(outbound[h]))
    /\ UNCHANGED <<config, reply, outcome, response>>

drop_item(h) ==
    \E req \in DropRequest :
        call_translator(h, req,
            drop(smartscreen_client, req.item, req.display, req.x, req.y))

notify_user(h) ==
    \E req \in NotifyRequest :
        call_translator(h, req,
            notify(smartscreen_client, req.message, req.display, req.priority))

toast_message(h) ==
    \E req \in ToastRequest :
        call_translator(h, req,
            toast(smartscreen_client, req.message, req.display, req.heading,
                  req.icon, req.transition, req.duration))

marquee_text(h) ==
    \E req \in MarqueeRequest :
        call_translator(h, req,
            marquee(smartscreen_client, req.message, req.display, req.duration,
                    req.color, req.size, req.bgcolor))

display_text(h) ==
    \E req \in TextRequest :
        call_translator(h, req,
            text(smartscreen_client, req.message, req.display, req.duration,
                 req.color, req.size, req.bgcolor, req.align, req.frame,
                 req.animate, req.aniduration))

launch_app(h) ==
    \E req \in AppRequest :
        call_translator(h, req,
            app(smartscreen_client, req.url, req.display, req.duration, req.frame))

touch_command(h) ==
    \E req \in TouchRequest :
        call_translator(h, req,
            touch(smartscreen_client, req.option, req.display, req.value))

status_command(h) ==
    \E req \in StatusRequest :
        call_translator(h, req,
            status(smartscreen_client, req.option, req.display, req.value))

dj_command(h) ==
    \E req \in DjRequest :
        call_translator(h, req,
            dj(smartscreen_client, req.option, req.display, req.value))

\* The await of a translator's POST ends, with a response or with a
\* transport error; the translator finishes and its endpoint answers.
translator_returns(h) ==
    /\ pc[h] = "awaiting"
    /\ request[h].endpoint \in DisplayEndpoints
    /\ \E r \in VendorReplies :
        /\ reply' = [reply EXCEPT ![h] = r]
        /\ outcome' = [outcome EXCEPT ![h] = translator_outcome(r)]
        /\ response' = [response EXCEPT ![h] =
                            endpoint_response(request[h], translator_outcome(r))]
    /\ pc' = [pc EXCEPT ![h] = "done"]
    /\ UNCHANGED <<config, request, outbound, accepted, sent>>

\* Faulty variant: the endpoint does not look at the key.
endpoint_key_never_missing(key) == FALSE

\* if not YOUTUBE_API_KEY, in the endpoint
endpoint_key_missing(key) == ~truthy(key)

\* if not YOUTUBE_API_KEY, in search_youtube_video
adapter_key_missing(key) == ~truthy(key)

\* GET /search-youtube.  Without an API key the endpoint raises at once.
\* Otherwise it calls the adapter, which checks the key again (and would
\* return None without a call) and then issues its GET.
get_youtube_video_link(h) ==
    /\ pc[h] = "idle"
    /\ \E req \in SearchRequest :
        /\ request' = [request EXCEPT ![h] = req]
        /\ IF endpoint_key_missing(YOUTUBE_API_KEY)
           THEN /\ pc' = [pc EXCEPT ![h] = "done"]
                /\ response' = [response EXCEPT ![h] = HTTPException(500,
                       "API key configuration error. Please check server logs.")]
                /\ UNCHANGED <<outbound, outcome>>
           ELSE IF adapter_key_missing(YOUTUBE_API_KEY)
           THEN /\ pc' = [pc EXCEPT ![h] = "done"]
                /\ outcome' = [outcome EXCEPT ![h] =
                       [kind |-> "returned", video_id |-> None, parsed |-> FALSE]]
                /\ response' = [response EXCEPT ![h] =
                       get_youtube_video_link_response(req, outcome'[h])]
                /\ UNCHANGED outbound
           ELSE /\ pc' = [pc EXCEPT ![h] = "awaiting"]
                /\ outbound' = [outbound EXCEPT ![h] =
                       await_call(@, search_call(req.query, YOUTUBE_API_KEY))]
                /\ UNCHANGED <<response, outcome>>
    /\ UNCHANGED <<config, reply, accepted, sent>>

\* The await of the adapter's GET ends.
search_returns(h) ==
    /\ pc[h] = "awaiting"
    /\ request[h].endpoint = "/search-youtube"
    /\ \E r \in SearchReplies :
        /\ reply' = [reply EXCEPT ![h] = r]
        /\ outcome' = [outcome EXCEPT ![h] = search_youtube_video(r)]
        /\ response' = [response EXCEPT ![h] =
               get_youtube_video_link_response(request[h], search_youtube_video(r))]
    /\ pc' = [pc EXCEPT ![h] = "done"]
    /\ UNCHANGED <<config, request, outbound, accepted, sent>>

\* The response has been written; nothing of the request is kept.
finish(h) ==
    /\ pc[h] = "done"
    /\ pc' = [pc EXCEPT ![h] = "idle"]
    /\ request' = [request EXCEPT ![h] = NoRequest]
    /\ outbound' = [outbound EXCEPT ![h] = << >>]
    /\ reply' = [reply EXCEPT ![h] = NoReply]
    /\ outcome' = [outcome EXCEPT ![h] = NoOutcome]
    /\ response' = [response EXCEPT ![h] = NoResponse]
    /\ UNCHANGED <<config, accepted, sent>>

Next ==
    \E h \in Handlers :
        \/ drop_item(h)
        \/ notify_user(h)
        \/ toast_message(h)
        \/ marquee_text(h)
        \/ display_text(h)
        \/ launch_app(h)
        \/ touch_command(h)
        \/ status_command(h)
        \/ dj_command(h)
        \/ translator_returns(h)
        \/ get_youtube_video_link(h)
        \/ search_returns(h)
        \/ finish(h)

Spec == Init /\ [][Next]_vars

\* ------------------------------------------------------------- properties

\* Handlers of display requests whose outbound call has been issued, and
\* those that have answered.
InFlight == {h \in Handlers : pc[h] # "idle" /\ request[h].endpoint \in DisplayEndpoints}

Answered == {h \in InFlight : pc[h] = "done"}

Searches == {h \in Handlers : pc[h] # "idle" /\ request[h].endpoint = "/search-youtube"}

SearchesAnswered == {h \in Searches : pc[h] = "done"}

Returned(h, v) == outcome[h].kind = "returned" /\ outcome[h].value = v

\* The vendor's "no error": status 200 and a decoded body whose ErrCode is 0.
VendorSaidOk(r) ==
    /\ r.kind = "response"
    /\ r.status = 200
    /\ r.is_json
    /\ "ErrCode" \in DOMAIN r.json
    /\ r.json.ErrCode = 0

\* The fixed detail of each POST endpoint's failure.
FailedDetail ==
    [e \in DisplayEndpoints |->
        CASE e = "/drop" -> "Failed to drop item"
          [] e = "/notify" -> "Failed to send notification"
          [] e = "/toast" -> "Failed to show toast message"
          [] e = "/marquee" -> "Failed to show marquee text"
          [] e = "/text" -> "Failed to show text"
          [] e = "/app" -> "Failed to launch app"
          [] e = "/touch" -> "Failed to execute touch command"
          [] e = "/status" -> "Failed to execute status command"
          [] e = "/dj" -> "Failed to execute DJ command"]

OperationFailed(h) ==
    /\ response[h].status = 500
    /\ DOMAIN response[h].body = {"detail"}
    /\ response[h].body.detail = FailedDetail[request[h].endpoint]

\* A 200 whose body is a message plus fields of the request, unchanged.
OperationSucceeded(h) ==
    /\ response[h].status = 200
    /\ "message" \in DOMAIN response[h].body
    /\ DOMAIN response[h].body # {"message"}
    /\ \A k \in DOMAIN response[h].body \ {"message"} :
          IF k \in DOMAIN request[h]
          THEN response[h].body[k] = request[h][k]
          ELSE response[h].body[k] = request[h].message

\* C1: for every display operation and every vendor response received, the
\* translator reports success if and only if the status is 200 and the decoded
\* body's ErrCode is 0; a 200 body without ErrCode or with another ErrCode is
\* a failure; a non-200 status is a failure decided without parsing the body.
C1_SuccessIffStatus200AndErrCode0 ==
    \A h \in Answered :
        reply[h].kind = "response" =>
            /\ Returned(h, TRUE) <=> VendorSaidOk(reply[h])
            /\ (reply[h].status = 200 /\ reply[h].is_json /\ ~VendorSaidOk(reply[h]))
                   => Returned(h, FALSE)
            /\ reply[h].status # 200
                   => (Returned(h, FALSE) /\ ~outcome[h].parsed)

C1_Witness ==
    \E h1, h2 \in Answered :
        /\ VendorSaidOk(reply[h1]) /\ Returned(h1, TRUE)
        /\ reply[h2].kind = "response" /\ reply[h2].status = 200
        /\ reply[h2].is_json /\ "ErrCode" \notin DOMAIN reply[h2].json
        /\ Returned(h2, FALSE)

\* C2: a POST display endpoint answers 200 with a message and the echoed
\* request fields exactly when its translator reported success, and 500 with
\* the endpoint's fixed "Failed to ..." detail exactly when its translator
\* reported failure; it never answers 200 for a failed vendor call.
C2_EndpointFollowsTranslator ==
    \A h \in Answered :
        /\ Returned(h, TRUE) <=> OperationSucceeded(h)
        /\ Returned(h, FALSE) <=> OperationFailed(h)
        /\ response[h].status = 200 => Returned(h, TRUE)

C2_Witness ==
    \E h1, h2 \in Answered :
        /\ Returned(h1, TRUE) /\ OperationSucceeded(h1)
        /\ Returned(h2, FALSE) /\ OperationFailed(h2)
        /\ request[h1].endpoint # request[h2].endpoint

\* The outbound call could not be completed, or its 200 body is not JSON.
LowerLayerFailure(r) ==
    \/ r.kind = "error"
    \/ (r.kind = "response" /\ r.status = 200 /\ ~r.is_json)

\* C3: when the outbound call cannot be completed or its 200 body cannot be
\* decoded, the translator gives back false and the endpoint answers 500 with
\* its fixed "Failed to ..." detail, as for a vendor error.
\* (Stated for a configured service token, so that the missing token plays
\* no part in it.)
C3_LowerLayerFailureCollapsesToFalse ==
    truthy(SMARTSCREEN_SERVICE_TOKEN) =>
        \A h \in Answered :
            LowerLayerFailure(reply[h]) => (Returned(h, FALSE) /\ OperationFailed(h))

\* The key set of each operation's vendor command.
KeySet ==
    [e \in DisplayEndpoints |->
        CASE e = "/drop" -> {"cmd", "type", "src", "duration", "frame", "animate",
                             "aniduration", "pmode", "bgcolor"}
          [] e = "/notify" -> {"cmd", "msg", "duration", "color", "size"}
          [] e = "/toast" -> {"cmd", "msg", "heading", "icon", "transition", "duration"}
          [] e = "/marquee" -> {"cmd", "msg", "duration", "color", "size", "bgcolor"}
          [] e = "/text" -> {"cmd", "msg", "duration", "color", "size", "bgcolor",
                             "align", "frame", "animate", "aniduration"}
          [] e = "/app" -> {"cmd", "url", "duration", "frame"}
          [] e = "/touch" -> {"cmd", "option", "value"}
          [] e = "/status" -> {"cmd", "option", "value"}
          [] e = "/dj" -> {"cmd", "option", "value"}]

CmdName ==
    [e \in DisplayEndpoints |->
        CASE e = "/drop" -> "drop" [] e = "/notify" -> "notify"
          [] e = "/toast" -> "toast" [] e = "/marquee" -> "marquee"
          [] e = "/text" -> "text" [] e = "/app" -> "app"
          [] e = "/touch" -> "touch" [] e = "/status" -> "status"
          [] e = "/dj" -> "dj"]

\* The fixed values of the drop command.
DropFixed ==
    [duration |-> "0", frame |-> "main", animate |-> "fade", aniduration |-> "2",
     pmode |-> "loop", bgcolor |-> "white"]

\* The documented value of key k in the command of request req: the caller's
\* field where one maps to k, the fixed value otherwise.
Documented(req, k) ==
    IF k = "cmd" THEN CmdName[req.endpoint]
    ELSE IF k = "msg" THEN req.message
    ELSE IF req.endpoint = "/drop"
    THEN (IF k = "type" THEN "url" ELSE IF k = "src" THEN <<req.item>> ELSE DropFixed[k])
    ELSE IF req.endpoint = "/notify"
    THEN (CASE k = "duration" -> "30" [] k = "color" -> "blue" [] k = "size" -> "3")
    ELSE req[k]

\* The body of the one call a display handler has issued.
Payload(h) == outbound[h][1].json

SameDrop(h1, h2) ==
    /\ request[h1].endpoint = "/drop" /\ request[h2].endpoint = "/drop"
    /\ request[h1].display = request[h2].display
    /\ request[h1].item = request[h2].item

SameNotify(h1, h2) ==
    /\ request[h1].endpoint = "/notify" /\ request[h2].endpoint = "/notify"
    /\ request[h1].display = request[h2].display
    /\ request[h1].message = request[h2].message

SameReply(a, b) ==
    /\ a.kind = b.kind
    /\ a.kind = "response" =>
          (a.status = b.status /\ a.is_json = b.is_json /\ a.json = b.json)

\* C6: two notify requests that agree on display and message and differ only
\* in priority give identical vendor payloads (duration "30", color "blue",
\* size "3") and, given the same vendor reply, identical REST responses.
C6_NotifyIgnoresPriority ==
    \A h1, h2 \in InFlight :
        SameNotify(h1, h2) =>
            /\ Payload(h1) = Payload(h2)
            /\ Payload(h1).data.duration = "30"
            /\ Payload(h1).data.color = "blue"
            /\ Payload(h1).data.size = "3"
            /\ (h1 \in Answered /\ h2 \in Answered /\ SameReply(reply[h1], reply[h2]))
                   => response[h1] = response[h2]

C6_Witness ==
    \E h1, h2 \in Answered :
        /\ SameNotify(h1, h2)
        /\ request[h1].priority = "normal" /\ request[h2].priority = "high"
        /\ SameReply(reply[h1], reply[h2]) /\ VendorSaidOk(reply[h1])
        /\ response[h1] = response[h2] /\ response[h1].status = 200

\* C7: every accepted display request causes exactly one outbound call to the
\* vendor endpoint before its response is produced, also when it fails, and
\* n requests, identical or not, in any interleaving, give n outbound calls.
C7_ExactlyOneOutboundCallPerRequest ==
    /\ \A h \in InFlight :
          /\ Len(outbound[h]) = 1
          /\ outbound[h][1].method = "POST"
          /\ outbound[h][1].url = SMARTSCREEN_API_URL
    /\ sent = accepted

C7_Witness ==
    \E h1, h2 \in InFlight :
        /\ h1 # h2
        /\ request[h1].endpoint = request[h2].endpoint
        /\ request[h1] = request[h2]
        /\ h1 \in Answered /\ Returned(h1, FALSE)
        /\ Len(outbound[h1]) = 1 /\ Len(outbound[h2]) = 1
        /\ accepted >= 2 /\ sent = accepted

\* C8: while the service token is missing from the environment, no outbound
\* call to the vendor endpoint is made for a display request, and the request
\* is answered with a server error.
C8_NoOutboundCallWithoutToken ==
    ~truthy(SMARTSCREEN_SERVICE_TOKEN) =>
        /\ sent = 0
        /\ \A h \in InFlight :
              /\ outbound[h] = << >>
              /\ pc[h] = "done" /\ response[h].status = 500

\* C9: without a video-search API credential, GET /search-youtube answers 500
\* for every query and makes no outbound call on that request.
C9_NoKeyMeans500AndNoCall ==
    ~truthy(YOUTUBE_API_KEY) =>
        \A h \in Searches :
            /\ pc[h] = "done"
            /\ response[h].status = 500
            /\ outbound[h] = << >>

C9_Witness ==
    /\ ~truthy(YOUTUBE_API_KEY)
    /\ \E h1, h2 \in SearchesAnswered :
          /\ request[h1].query # request[h2].query
          /\ response[h1].status = 500 /\ response[h2].status = 500
          /\ outbound[h1] = << >> /\ outbound[h2] = << >>

\* The outbound search call failed: no response, or a non-2xx status.
TransportOrHttpFailure(r) ==
    \/ r.kind = "error"
    \/ (r.kind = "response" /\ r.status \notin 200..299)

\* A valid response with no matching result: items empty or absent.
NoMatchingResult(r) ==
    /\ r.kind = "response"
    /\ r.status = 200
    /\ r.is_json
    /\ get(r.json, "items", << >>) = << >>

ConfigurationError ==
    HTTPException(500, "API key configuration error. Please check server logs.")

NotFound(query) ==
    HTTPException(404, "No relevant YouTube video found for query: '"
                       \o str(query) \o "'")

SameSearch(h1, h2) == request[h1].query = request[h2].query

SearchSucceeded(r) == r.kind = "response" /\ r.status = 200 /\ r.is_json

\* The first item of a successful search response has a non-empty id.videoId.
FirstItemHasVideoId(r) ==
    /\ "items" \in DOMAIN r.json
    /\ r.json.items # << >>
    /\ "id" \in DOMAIN r.json.items[1]
    /\ "videoId" \in DOMAIN r.json.items[1].id
    /\ r.json.items[1].id.videoId # ""

WatchUrl(v) == "https://www.youtube.com/watch?v=" \o v

\* C11: with a credential configured and a successful search response, a
\* first item with id.videoId = v is answered 200 with video_url =
\* "https://www.youtube.com/watch?v=" followed by v; empty or absent items are
\* answered 404; a 200 never carries an empty or missing video id (a first
\* item without a non-empty id.videoId is answered 404).
C11_VideoUrlFromFirstItem ==
    \A h \in SearchesAnswered :
        (YOUTUBE_API_KEY # None /\ SearchSucceeded(reply[h])) =>
            /\ FirstItemHasVideoId(reply[h]) =>
                  /\ response[h].status = 200
                  /\ DOMAIN response[h].body = {"video_url"}
                  /\ response[h].body.video_url =
                         WatchUrl(reply[h].json.items[1].id.videoId)
            /\ NoMatchingResult(reply[h]) => response[h].status = 404
            /\ ~FirstItemHasVideoId(reply[h]) => response[h].status = 404
            /\ response[h].status = 200 => FirstItemHasVideoId(reply[h])

C11_Witness ==
    \E h1, h2 \in SearchesAnswered :
        /\ SearchSucceeded(reply[h1]) /\ FirstItemHasVideoId(reply[h1])
        /\ response[h1] = OK([video_url |-> "https://www.youtube.com/watch?v=abc123"])
        /\ SearchSucceeded(reply[h2])
        /\ "items" \in DOMAIN reply[h2].json /\ reply[h2].json.items # << >>
        /\ ~FirstItemHasVideoId(reply[h2])
        /\ response[h2].status = 404

\* Everything a handler holds of its request.
HandlerState(h) ==
    <<pc[h], request[h], outbound[h], reply[h], outcome[h], response[h]>>

\* A handler suspended on its outbound call stops no other handler: an idle
\* one can take a request, a suspended one can be resumed, a finished one can
\* return.
NoHandlerBlocksAnother ==
    \A h1, h2 \in Handlers :
        (h1 # h2 /\ pc[h1] = "awaiting") =>
            /\ pc[h2] = "idle" =>
                  /\ ENABLED get_youtube_video_link(h2)
                  /\ accepted < MaxRequests =>
                        (ENABLED drop_item(h2) /\ ENABLED dj_command(h2))
            /\ pc[h2] = "awaiting" =>
                  ENABLED (translator_returns(h2) \/ search_returns(h2))
            /\ pc[h2] = "done" => ENABLED finish(h2)

\* The outbound call and the response of a request are functions of the
\* request and of the reply to its own call.
DependsOnlyOnOwnRequestAndReply ==
    \A h1, h2 \in Handlers :
        (/\ pc[h1] # "idle" /\ pc[h2] # "idle"
         /\ request[h1].endpoint = request[h2].endpoint
         /\ request[h1] = request[h2]) =>
            /\ outbound[h1] = outbound[h2]
            /\ (pc[h1] = "done" /\ pc[h2] = "done" /\ SameReply(reply[h1], reply[h2]))
                   => response[h1] = response[h2]

\* A step is a step of one handler: it leaves what the others hold alone.
OneHandlerPerStep ==
    \E h \in Handlers : \A g \in Handlers \ {h} : HandlerState(g)' = HandlerState(g)

\* C12: under any interleaving of concurrent requests, a request suspended on
\* its outbound call never prevents another from completing; the process-wide
\* configuration (vendor URL, service token, search API key) is never
\* modified; each request's outbound payload and response depend only on its
\* own fields and on the reply to its own call.
C12_NoBlockingNoSharedMutableState ==
    /\ [](NoHandlerBlocksAnother /\ DependsOnlyOnOwnRequestAndReply)
    /\ [][config' = config /\ OneHandlerPerStep]_vars

C12_Witness ==
    \E h1, h2 \in Handlers :
        /\ h1 # h2
        /\ pc[h1] = "awaiting" /\ request[h1].endpoint = "/notify"
        /\ pc[h2] = "done" /\ request[h2].endpoint = "/notify"
        /\ request[h1] = request[h2]
        /\ response[h2].status = 200
        /\ accepted = MaxRequests
        /\ smartscreen_client = SmartScreenClient(SMARTSCREEN_SERVICE_TOKEN)

\* The search API decodes a parameter once: "+" is a space, %XX the character
\* it stands for.
RECURSIVE unquote_plus(_)
unquote_plus(s) ==
    IF s = << >> THEN << >>
    ELSE IF Head(s) = "+" THEN <<" ">> \o unquote_plus(Tail(s))
    ELSE IF Head(s) = "%" /\ Len(s) >= 3
            /\ \E c \in DOMAIN ClientCode : ClientCode[c] = SubSeq(s, 1, 3)
    THEN <<CHOOSE c \in DOMAIN ClientCode : ClientCode[c] = SubSeq(s, 1, 3)>>
         \o unquote_plus(SubSeq(s, 4, Len(s)))
    ELSE <<Head(s)>> \o unquote_plus(Tail(s))

\* The search texts the API can receive for the call a handler has issued.
ReceivedQueries(h) ==
    {unquote_plus(w) : w \in httpx_query_values(outbound[h][1].params.q)}

\* C13: for every query, also one with spaces or reserved characters, the
\* search text the API receives after decoding q once is the caller's query:
\* the adapter's encoding followed by the client's own encoding round-trips.
C13_QueryRoundTrips ==
    \A h \in Searches :
        outbound[h] # << >> =>
            \A received \in ReceivedQueries(h) : received = request[h].query

====
